---- MODULE Spec2Model ----
(***************************************************************************)
(* A model of the 3D-DOC demo (src/main.go): the start-up sequence, the    *)
(* intro scroller, the floor offset, the wave scroller offset, the phase   *)
(* selection and spin accumulation of drawDoc and its depth sort.          *)
(*                                                                         *)
(* Real-valued quantities are kept in fixed point; every unit is stated    *)
(* where the quantity is declared:                                         *)
(*   scroll offsets      pixels (the code only adds 2 and 3 to them)       *)
(*   clock t             eighths of a second                               *)
(*   blend alpha         halves                                            *)
(*   spin speed          halves of the code's unit                         *)
(*   angles              1/14400 of a turn (one half degree = 20 units,    *)
(*                       one spin step (2*pi/360)*0.15*(1/2) = 3 units)    *)
(*   cos, sin            quarters, rounded to the nearest quarter          *)
(*   speed               quarters;  xm  units of 32;  xMove units of 0.04  *)
(*   vbl, vbl2           hundredths                                        *)
(* Pure rendering (canvases, glyph lookup, the projected U, V, W of a      *)
(* sprite, the vertical displacement of a body, yMove, vbl3, vbl4 and the  *)
(* displacement table) changes no quantity modelled here and is left out.  *)
(***************************************************************************)
EXTENDS Integers, Sequences, FiniteSets, TLC

\* ---------------------------------------------------------------- bounds
MaxDepth == 3        \* depths handed to the sort range over 0..MaxDepth
MaxWindow == 26     \* the clock is followed through phase windows 0..MaxWindow
MaxClockStep == 46   \* two successive clock readings differ by at most this (eighths of a second)
MaxUpdates == 120    \* main-scene updates followed (caps vbl and vbl2)
MaxMainCalls == 2    \* handler calls followed after the intro in the whole-program specification

\* ------------------------------------------------------- program constants
fontWidth == 62
Text1Len == 136      \* len(g.text1)
Text1Marker == 125   \* index of the backslash in g.text1
Text2Len == 321      \* len(g.text2)
ANIM_DURATION == 7

Bodies == 0..3

\* ------------------------------------------------------------ arithmetic
\* math.Mod: the remainder of the truncated division, with the sign of x.
FMod(x, y) == IF x >= 0 THEN x % y ELSE -((-x) % y)

\* Go's int(x) of a quotient: truncation toward zero.
TruncDiv(x, y) == IF x >= 0 THEN x \div y ELSE -((-x) \div y)

Min(a, b) == IF a <= b THEN a ELSE b

\* math.Pi*2 in angle units.
Turn == 14400
\* math.Pi*2/360 times one half, in angle units.
HalfDegree == 20
\* (math.Pi*2/360) * 0.15 times one half of a spin unit, in angle units.
SpinStep == 3

\* cos of r/den turns in quarters, rounded to the nearest quarter: the
\* thresholds are acos(7/8), acos(5/8), ... , acos(-7/8) in 1/100000 turn.
Cos4(r, den) ==
    LET a == r % den
        f == IF 2 * a > den THEN den - a ELSE a
        p == (f * 100000) \div den
    IN  IF p < 8043 THEN 4
        ELSE IF p < 14256 THEN 3
        ELSE IF p < 18882 THEN 2
        ELSE IF p < 23005 THEN 1
        ELSE IF p < 26995 THEN 0
        ELSE IF p < 31118 THEN -1
        ELSE IF p < 35744 THEN -2
        ELSE IF p < 41957 THEN -3
        ELSE -4

\* sin(x) = cos(x - 1/4 turn) = cos(x + 3/4 turn); den is a multiple of 4.
Sin4(r, den) == Cos4(r + 3 * (den \div 4), den)

\* ----------------------------------------------------------------- state
VARIABLES
    pc,             \* main: "new" before Init, "fatal" after log.Fatal, "loop" in ebiten.RunGame
    imagesOk,       \* environment: imagesOk[k] iff the k-th image asset reads and decodes
    music,          \* environment: "ok", "missing", "undecodable" or "noplayer"
    initErr,        \* what Init returned: "nil" or the name of what failed
    audioPlayer,    \* g.audioPlayer: "nil" or "playing"
    jump,           \* g.jump
    scrollX1,       \* g.scrollX1 (pixels)
    scrollX2,       \* g.scrollX2 (pixels)
    vbl,            \* g.vbl (hundredths)
    vbl2,           \* g.vbl2 (hundredths)
    speed,          \* g.speed (quarters)
    xm,             \* g.xm (units of 32)
    xMove,          \* g.xMove (units of 0.04)
    t,              \* the last reading of time.Since(g.startTime) (eighths of a second)
    overWriteFirstTwoWaveforms,  \* g.overWriteFirstTwoWaveforms
    currentRadians, \* g.currentRadians (angle units)
    drawn,          \* drawDoc has run at least once
    radiansBefore,  \* g.currentRadians on entry to the last drawDoc call
    frame,          \* per body of the last drawDoc call: the two phases handed to
                    \* getMovement, the blended spin and the angle the body was rotated by
    balls,          \* balls[i].Z of the last drawDoc call
    indices,        \* the draw order computed by the last drawDoc call
    calls,          \* handler calls made since the intro ended
    turn            \* the handler the frame loop calls next

vars == <<pc, imagesOk, music, initErr, audioPlayer, jump, scrollX1, scrollX2,
          vbl, vbl2, speed, xm, xMove, t, overWriteFirstTwoWaveforms,
          currentRadians, drawn, radiansBefore, frame, balls, indices, calls,
          turn>>

assetVars == <<imagesOk, music, initErr, audioPlayer>>
introVars == <<jump, scrollX1>>
floorVars == <<vbl, vbl2, speed, xm>>
docVars == <<t, overWriteFirstTwoWaveforms, currentRadians, drawn, radiansBefore,
             frame, balls, indices>>

\* ------------------------------------------------------------ Game.Init
\* The images in the order Init loads them: backdrop, mountains, font1,
\* fontIn, fontOut, sphere, shadow1..shadow4.
ImageNames == <<"backdrop", "mountains", "font1", "fontIn", "fontOut", "sphere",
                "shadow1", "shadow2", "shadow3", "shadow4">>
Images == 1..Len(ImageNames)
MusicStates == {"ok", "missing", "undecodable", "noplayer"}

FirstFailure(ok) == CHOOSE k \in Images : ~ok[k] /\ \A j \in Images : j < k => ok[j]

\* A faulty variant of InitResult: the error of a shadow image is dropped.
InitResultShadowsUnchecked(ok, mus) ==
    IF \E k \in 1..6 : ~ok[k] THEN ImageNames[FirstFailure(ok)]
    ELSE IF mus = "undecodable" THEN "music"
    ELSE IF mus = "noplayer" THEN "player"
    ELSE "nil"

\* The error Init returns: the first image that fails, else a music file that
\* is there and does not decode or play; a missing music file is no error.
InitResult(ok, mus) ==
    IF \E k \in Images : ~ok[k] THEN ImageNames[FirstFailure(ok)]
    ELSE IF mus = "missing" THEN "nil"
    ELSE IF mus = "undecodable" THEN "music"
    ELSE IF mus = "noplayer" THEN "player"
    ELSE "nil"

\* g.audioPlayer after Init: set and playing only when everything succeeded.
InitPlayer(ok, mus) ==
    IF InitResult(ok, mus) = "nil" /\ mus = "ok" THEN "playing" ELSE "nil"

\* main: NewGame, Init, then log.Fatal on an error or ebiten.RunGame.
Main ==
    /\ pc = "new"
    /\ initErr' = InitResult(imagesOk, music)
    /\ audioPlayer' = InitPlayer(imagesOk, music)
    /\ pc' = IF initErr' # "nil" THEN "fatal" ELSE "loop"
    /\ UNCHANGED <<imagesOk, music, introVars, scrollX2, floorVars, xMove, docVars,
                   calls, turn>>

\* -------------------------------------------------------- scroll offsets
\* A faulty variant of DrawScrollText: the advanced offset is not wrapped.
DrawScrollTextUnwrapped(textLen, scrollX) == scrollX + 3

\* What drawScrollText returns: the offset advanced by 3, wrapped at the
\* pixel length of the text.
DrawScrollText(textLen, scrollX) == FMod(scrollX + 3, textLen * fontWidth)

\* A faulty variant of the marker test: the index is compared with the
\* length of text1, which no index inside the text equals.
IsMarkerPastEnd(charIndex) == charIndex < Text1Len /\ charIndex = Text1Len

\* text1[charIndex] = '\\': g.text1 holds one backslash, at Text1Marker.
IsMarker(charIndex) == charIndex < Text1Len /\ charIndex = Text1Marker

\* Update, intro branch: detect the marker under the offset, then advance by 2.
UpdateIntro ==
    /\ pc = "loop"
    /\ ~jump
    /\ jump' = IsMarker(TruncDiv(scrollX1, fontWidth))
    /\ scrollX1' = FMod(scrollX1 + 2, Text1Len * fontWidth)
    /\ UNCHANGED <<pc, assetVars, scrollX2, floorVars, xMove, docVars>>

\* -------------------------------------------------------- floor offsets
\* vbl/40 and vbl2/40 radians as a fraction of a turn: x hundredths over
\* 100 * 40 * 2*pi = 25133.
RadDen == 25133

\* Update, main branch.
UpdateMain ==
    /\ pc = "loop"
    /\ jump
    /\ vbl < 16 * MaxUpdates
    /\ speed' = -Cos4(vbl, RadDen)
    /\ vbl' = vbl + 16
    /\ xm' = Cos4(vbl2, RadDen)
    /\ vbl2' = vbl2 + 80
    /\ UNCHANGED <<pc, assetVars, introVars, scrollX2, xMove, docVars>>

\* 32 in the units of xMove.
XWrap == 800

\* The two conditional wraps of drawChessboard.
WrapX(x) ==
    LET a == IF x > XWrap THEN x - XWrap ELSE x
    IN  IF a < 0 THEN a + XWrap ELSE a

\* drawChessboard's new g.xMove: xMove + xm*speed*0.005, wrapped.
FloorAdvance(x, m, s) == WrapX(x + m * s)

\* -------------------------------------------------------- depth sort
\* A faulty variant of ShouldSwap: the comparison is reversed.
ShouldSwapReversed(zi, zj) == zi > zj

\* A faulty variant of ShouldSwap: equal depths are swapped too.
ShouldSwapOnTies(zi, zj) == zi <= zj

\* balls[indices[i]].Z < balls[indices[j]].Z
ShouldSwap(zi, zj) == zi < zj

Swap(idx, i, j) == [idx EXCEPT ![i] = idx[j], ![j] = idx[i]]

\* The two nested loops of drawDoc over i in 0..2 and j in i+1..3.
RECURSIVE SortFrom(_, _, _, _)
SortFrom(z, idx, i, j) ==
    IF i >= 3 THEN idx
    ELSE IF j >= 4 THEN SortFrom(z, idx, i + 1, i + 2)
    ELSE SortFrom(z, IF ShouldSwap(z[idx[i]], z[idx[j]]) THEN Swap(idx, i, j) ELSE idx,
                  i, j + 1)

DepthSort(z) == SortFrom(z, [k \in Bodies |-> k], 0, 1)

\* -------------------------------------------------------------- drawDoc
\* int(t/ANIM_DURATION)
Window(now) == TruncDiv(now, 8 * ANIM_DURATION)

\* A faulty variant of AnimIndex: during the warm-up the raw index is used as it is.
AnimIndexNotForced(now, warm) ==
    LET raw == Window(now) % 8
    IN  IF ~warm /\ raw < 2 THEN 2 + (Window(now) % 6) ELSE raw

\* animIndex as drawDoc resolves it before the two getMovement calls.
AnimIndex(now, warm) ==
    LET raw == Window(now) % 8
        steady == IF ~warm /\ raw < 2 THEN 2 + (Window(now) % 6) ELSE raw
    IN  IF warm /\ steady < 2 THEN 7 ELSE steady

\* alpha = min(1, Mod(t/7, 1) * 7 * 0.8) in halves: exact where the time
\* into the window is a multiple of 5/8 s, as it is at every clock reading
\* of this model.
Alpha(now) == Min(2, (FMod(now, 8 * ANIM_DURATION)) \div 5)

\* The case of getMovement's switch that answers for index at time now.
RECURSIVE MovementPhase(_, _)
MovementPhase(index, now) ==
    LET ix == IF index < 2 /\ now > 21 * 8 THEN 2 + (Window(now) % 6) ELSE index
    IN  IF ix \in 0..7 THEN ix ELSE MovementPhase(2 + ((ix - 2) % 6), now)

\* The Anim each case returns, without Displace.
PhaseAnim(phase) ==
    CASE phase \in {0, 1} -> [SpinSpeed |-> -5, BallLineDisplacement |-> 0, RadiusFromCenterOfScreen |-> 0]
      [] phase = 2 -> [SpinSpeed |-> -5, BallLineDisplacement |-> 35, RadiusFromCenterOfScreen |-> 150]
      [] phase = 3 -> [SpinSpeed |-> 5, BallLineDisplacement |-> 16, RadiusFromCenterOfScreen |-> 150]
      [] phase = 4 -> [SpinSpeed |-> 5, BallLineDisplacement |-> 20, RadiusFromCenterOfScreen |-> 150]
      [] phase = 5 -> [SpinSpeed |-> 5, BallLineDisplacement |-> 20, RadiusFromCenterOfScreen |-> 150]
      [] phase = 6 -> [SpinSpeed |-> -7, BallLineDisplacement |-> 20, RadiusFromCenterOfScreen |-> 150]
      [] phase = 7 -> [SpinSpeed |-> -8, BallLineDisplacement |-> 20, RadiusFromCenterOfScreen |-> 150]

getMovement(index, now, i) == PhaseAnim(MovementPhase(index, now))

\* blendAnim with alpha in halves: every field of the result is in halves.
blendAnim(a, b, alpha) ==
    [SpinSpeed |-> a.SpinSpeed * (2 - alpha) + b.SpinSpeed * alpha,
     BallLineDisplacement |-> a.BallLineDisplacement * (2 - alpha) + b.BallLineDisplacement * alpha,
     RadiusFromCenterOfScreen |->
         a.RadiusFromCenterOfScreen * (2 - alpha) + b.RadiusFromCenterOfScreen * alpha]

\* The blended Anim of body i at time now.
BodyAnim(now, warm, i) ==
    blendAnim(getMovement(AnimIndex(now, warm), now, i),
              getMovement(AnimIndex(now, warm) + 1, now, i), Alpha(now))

\* Vec3.RotateY on the X and Z of a point; the result is scaled by 4.
RotateY(v, r) ==
    LET sin == Sin4(r, Turn)
        cos == Cos4(r, Turn)
    IN  [X |-> v.Z * sin + v.X * cos,
         Z |-> v.Z * cos - v.X * sin]

\* A faulty variant of Accumulate: the rotation is advanced for the first body only.
AccumulateOnce(cr, spin, i) == IF i = 0 THEN FMod(cr + SpinStep * spin, Turn) ELSE cr

\* A faulty variant of Accumulate: the sum is not wrapped.
AccumulateUnwrapped(cr, spin, i) == cr + SpinStep * spin

\* A faulty variant of Accumulate: the spin is always applied forwards.
AccumulateForwards(cr, spin, i) ==
    FMod(cr + SpinStep * (IF spin < 0 THEN -spin ELSE spin), Turn)

\* g.currentRadians after the two statements that advance and wrap it, in
\* the loop body of body i.
Accumulate(cr, spin, i) == FMod(cr + SpinStep * spin, Turn)

\* balls[i].Z for the blended anim of body i and the accumulated rotation
\* cr it is rotated by: the ring position rotated by the body's place on the
\* ring, then by cr.
BallZ(anim, cr, i) ==
    LET currentPos == RotateY([X |-> anim.RadiusFromCenterOfScreen, Z |-> 0],
                              HalfDegree * anim.BallLineDisplacement * i)
    IN  RotateY(currentPos, cr).Z

\* The flag after the latch at the top of drawDoc.
WarmUp(flag, now) == IF flag /\ now > ANIM_DURATION * 3 * 8 THEN FALSE ELSE flag

\* The instants at which the clock is read: three per phase window, where
\* alpha is 0, 1/2 and 1 (alpha stays 1 for the rest of the window).
SampleOffsets == {0, 5, 10}
SampleTimes == {8 * ANIM_DURATION * k + o : k \in 0..MaxWindow, o \in SampleOffsets}
ClockReadings(last) == {s \in SampleTimes : last <= s /\ s <= last + MaxClockStep}

\* What time.Since(g.startTime) may return in drawDoc: the clock is
\* monotonic; the first call comes after an intro of any length.
ClockNow == IF drawn THEN ClockReadings(t) ELSE SampleTimes

\* drawDoc with the clock reading now: the loop over the four bodies, each
\* advancing g.currentRadians before it is rotated by it, then the sort.
\* (Each \E over a one-element set names a value computed once.)
DrawDocStep(now) ==
    \E warm \in {WarmUp(overWriteFirstTwoWaveforms, now)} :
    \E anim \in {[i \in Bodies |-> BodyAnim(now, warm, i)]} :
    \E r0 \in {Accumulate(currentRadians, anim[0].SpinSpeed, 0)} :
    \E r1 \in {Accumulate(r0, anim[1].SpinSpeed, 1)} :
    \E r2 \in {Accumulate(r1, anim[2].SpinSpeed, 2)} :
    \E r3 \in {Accumulate(r2, anim[3].SpinSpeed, 3)} :
    \E radians \in {[i \in Bodies |-> CASE i = 0 -> r0 [] i = 1 -> r1 [] i = 2 -> r2 [] i = 3 -> r3]} :
        /\ t' = now
        /\ overWriteFirstTwoWaveforms' = warm
        /\ radiansBefore' = currentRadians
        /\ currentRadians' = r3
        /\ frame' = [i \in Bodies |->
                       [a |-> MovementPhase(AnimIndex(now, warm), now),
                        b |-> MovementPhase(AnimIndex(now, warm) + 1, now),
                        spin |-> anim[i].SpinSpeed,
                        angle |-> radians[i]]]
        /\ balls' = [i \in Bodies |-> BallZ(anim[i], radians[i], i)]
        /\ indices' = DepthSort(balls')
        /\ drawn' = TRUE

\* ------------------------------------------------------------- handlers
\* Draw, intro branch: the intro scroller is drawn and advanced.
DrawIntro ==
    /\ pc = "loop"
    /\ ~jump
    /\ scrollX1' = DrawScrollText(Text1Len, scrollX1)
    /\ UNCHANGED <<pc, assetVars, jump, scrollX2, floorVars, xMove, docVars>>

\* drawChessboard alone.
DrawChessboard ==
    /\ pc = "loop"
    /\ jump
    /\ xMove' = FloorAdvance(xMove, xm, speed)
    /\ UNCHANGED <<pc, assetVars, introVars, scrollX2, floorVars, docVars>>

\* drawScroller alone.
DrawScroller ==
    /\ pc = "loop"
    /\ jump
    /\ scrollX2' = DrawScrollText(Text2Len, scrollX2)
    /\ UNCHANGED <<pc, assetVars, introVars, floorVars, xMove, docVars>>

\* drawDoc alone.
DrawDoc ==
    /\ pc = "loop"
    /\ jump
    /\ \E now \in ClockNow : DrawDocStep(now)
    /\ UNCHANGED <<pc, assetVars, introVars, scrollX2, floorVars, xMove>>

\* Draw, main branch: drawChessboard, drawScroller, then drawDoc.
DrawMain ==
    /\ pc = "loop"
    /\ jump
    /\ xMove' = FloorAdvance(xMove, xm, speed)
    /\ scrollX2' = DrawScrollText(Text2Len, scrollX2)
    /\ \E now \in ClockNow : DrawDocStep(now)
    /\ UNCHANGED <<pc, assetVars, introVars, floorVars>>

Update == UpdateIntro \/ UpdateMain
Draw == DrawIntro \/ DrawMain

\* ------------------------------------------------------- specifications
\* The Game NewGame returns, before Init.
NewGame ==
    /\ jump = FALSE
    /\ scrollX1 = 0
    /\ scrollX2 = 0
    /\ vbl = 0
    /\ vbl2 = 0
    /\ speed = 4
    /\ xm = 0
    /\ xMove = 0
    /\ t = 0
    /\ overWriteFirstTwoWaveforms = TRUE
    /\ currentRadians = 0
    /\ drawn = FALSE
    /\ radiansBefore = 0
    /\ frame = [i \in Bodies |-> [a |-> 0, b |-> 0, spin |-> 0, angle |-> 0]]
    /\ balls = [i \in Bodies |-> 0]
    /\ indices = [k \in Bodies |-> k]
    /\ calls = 0
    /\ turn = "update"

\* The whole program: any assets, main, then the frame loop; the main scene
\* is followed for MaxMainCalls handler calls.
Init ==
    /\ pc = "new"
    /\ imagesOk \in [Images -> BOOLEAN]
    /\ music \in MusicStates
    /\ initErr = "nil"
    /\ audioPlayer = "nil"
    /\ NewGame

GameUpdate ==
    /\ jump => calls < MaxMainCalls
    /\ Update
    /\ calls' = IF jump THEN calls + 1 ELSE calls

GameDraw ==
    /\ jump => calls < MaxMainCalls
    /\ Draw
    /\ calls' = IF jump THEN calls + 1 ELSE calls

Next ==
    \/ Main
    \/ GameUpdate /\ UNCHANGED turn
    \/ GameDraw /\ UNCHANGED turn

Spec == Init /\ [][Next]_vars

\* The frame loop entered with every asset there.
Loaded ==
    /\ pc = "loop"
    /\ imagesOk = [k \in Images |-> TRUE]
    /\ music = "ok"
    /\ initErr = "nil"
    /\ audioPlayer = "playing"

\* The scrollers: the intro from its start, then the wave scroller.
ScrollInit == Loaded /\ NewGame

ScrollNext ==
    \/ UpdateIntro /\ UNCHANGED <<calls, turn>>
    \/ DrawIntro /\ UNCHANGED <<calls, turn>>
    \/ DrawScroller /\ UNCHANGED <<calls, turn>>

SpecScroll == ScrollInit /\ [][ScrollNext]_vars

\* The state in which an Update has just ended the intro at the first pixel
\* of the marker's cell.
MainStart ==
    /\ Loaded
    /\ jump = TRUE
    /\ scrollX1 = Text1Marker * fontWidth + 2
    /\ scrollX2 = 0
    /\ vbl = 0
    /\ vbl2 = 0
    /\ speed = 4
    /\ xm = 0
    /\ xMove = 0
    /\ t = 0
    /\ overWriteFirstTwoWaveforms = TRUE
    /\ currentRadians = 0
    /\ drawn = FALSE
    /\ radiansBefore = 0
    /\ frame = [i \in Bodies |-> [a |-> 0, b |-> 0, spin |-> 0, angle |-> 0]]
    /\ indices = [k \in Bodies |-> k]
    /\ calls = 0
    /\ turn = "update"

\* The floor: main-scene updates and drawChessboard calls in any order.
FloorInit == MainStart /\ balls = [i \in Bodies |-> 0]

FloorNext ==
    \/ UpdateMain /\ UNCHANGED <<calls, turn>>
    \/ DrawChessboard /\ UNCHANGED <<calls, turn>>

SpecFloor == FloorInit /\ [][FloorNext]_vars

\* The orbiting bodies: drawDoc calls at any later clock readings.
DocInit == MainStart /\ balls = [i \in Bodies |-> 0]

DocNext == DrawDoc /\ UNCHANGED <<calls, turn>>

SpecDoc == DocInit /\ [][DocNext]_vars

\* The depth sort on any four depths.
SortBalls ==
    /\ ~drawn
    /\ indices' = DepthSort(balls)
    /\ drawn' = TRUE
    /\ UNCHANGED <<pc, assetVars, introVars, scrollX2, floorVars, xMove, t,
                   overWriteFirstTwoWaveforms, currentRadians, radiansBefore,
                   frame, balls, calls, turn>>

SortInit == MainStart /\ balls \in [Bodies -> 0..MaxDepth]

SortNext == SortBalls

SpecSort == SortInit /\ [][SortNext]_vars

\* The frame loop of ebiten.RunGame: every tick calls Update once, then Draw
\* once, and the loop keeps ticking; the main scene is followed for
\* MaxMainCalls handler calls.
TickUpdate ==
    /\ turn = "update"
    /\ GameUpdate
    /\ turn' = "draw"

TickDraw ==
    /\ turn = "draw"
    /\ GameDraw
    /\ turn' = "update"

TickInit == Loaded /\ NewGame

TickNext == TickUpdate \/ TickDraw

SpecTick == TickInit /\ [][TickNext]_vars /\ WF_vars(TickNext)

\* --------------------------------------------------------------- claims
ImageFailed == \E k \in Images : ~imagesOk[k]

\* C1: in every drawDoc call, for every body, both phases handed to
\* getMovement (the resolved current index and the wrapped next one) are in
\* 2..7, never the intro phases 0 and 1; the warm-up flag is set exactly
\* while t <= 21 s.
C1_PhasesNeverIntro ==
    drawn =>
        /\ \A i \in Bodies : frame[i].a \in 2..7 /\ frame[i].b \in 2..7
        /\ overWriteFirstTwoWaveforms <=> (t <= 21 * 8)

\* A warm-up frame of window 0: the raw index 0 is replaced by 7, the blend
\* target 8 wraps to 2.
C1_Witness ==
    /\ drawn
    /\ overWriteFirstTwoWaveforms
    /\ Window(t) = 0
    /\ \A i \in Bodies : frame[i].a = 7 /\ frame[i].b = 2

\* C2 (as claimed): when a drawDoc call in window k is followed by one in
\* window k+1, the blend target of the first is the current phase of the
\* second.
C2_BoundaryContinuous ==
    [][(drawn /\ Window(t') = Window(t) + 1)
          => \A i \in Bodies : frame[i].b = frame'[i].a]_vars

\* C3: the order the depth sort produces is a permutation of the four
\* bodies and is non-increasing in z.
C3_SortedPermutation ==
    drawn =>
        /\ {indices[k] : k \in Bodies} = Bodies
        /\ \A k \in 0..2 : balls[indices[k]] >= balls[indices[k + 1]]

\* Depths given nearest first come out reversed.
C3_Witness ==
    /\ drawn
    /\ \A k \in 0..2 : balls[k] < balls[k + 1]
    /\ \A k \in Bodies : indices[k] = 3 - k

\* C4 (as claimed): bodies of equal depth come out in index order.
C4_Stable ==
    drawn =>
        \A p, q \in Bodies :
            (p < q /\ balls[indices[p]] = balls[indices[q]]) => indices[p] < indices[q]

FarthestDepth == CHOOSE m \in {balls[k] : k \in Bodies} : \A k \in Bodies : balls[k] <= m

\* C4 (amended): bodies tied for the greatest depth come out in index order.
C4_StableAmongFarthest ==
    drawn =>
        \A p, q \in Bodies :
            (p < q /\ balls[indices[p]] = FarthestDepth /\ balls[indices[q]] = FarthestDepth)
                => indices[p] < indices[q]

\* Bodies 1 and 3 tied for the greatest depth behind two nearer bodies.
C4_Witness ==
    /\ drawn
    /\ balls[1] = balls[3]
    /\ balls[0] < balls[1]
    /\ balls[2] < balls[1]
    /\ indices[0] = 1
    /\ indices[1] = 3

\* C5 (as claimed): after every frame advance 0 <= xMove < 32.
C5_XMoveInRange == 0 <= xMove /\ xMove < XWrap

\* C6: each scroller's offset stays in [0, textLength * cellWidth).
C6_ScrollInRange ==
    /\ 0 <= scrollX1 /\ scrollX1 < Text1Len * fontWidth
    /\ 0 <= scrollX2 /\ scrollX2 < Text2Len * fontWidth

\* The intro offset has wrapped: 1 is only reached from the last pixel by
\* Update's step of 2.
C6_Witness == ~jump /\ scrollX1 = 1

\* C7 (as claimed): 0 <= currentRadians < 2*pi.
C7_RadiansWrapped == 0 <= currentRadians /\ currentRadians < Turn

\* C7 (amended): -2*pi < currentRadians < 2*pi, as is every angle a body is
\* rotated by.
C7_RadiansWithinOneTurn ==
    /\ -Turn < currentRadians /\ currentRadians < Turn
    /\ \A i \in Bodies : -Turn < frame[i].angle /\ frame[i].angle < Turn

\* A backward spin has wrapped the rotation past -2*pi.
C7_Witness ==
    /\ drawn
    /\ frame[3].spin < 0
    /\ radiansBefore < 0
    /\ currentRadians > radiansBefore

\* The rotation the last drawDoc call added, modulo one turn.
Advance == (currentRadians - radiansBefore) % Turn

\* C8 (as claimed): every drawDoc call advances the rotation forwards
\* (modulo 2*pi).
C8_RotationIncreases == drawn => Advance \in 1..(Turn \div 2)

\* C8 (amended): every drawDoc call changes the rotation by four spin steps
\* of the frame's blended spin, modulo the wrap: forwards for a positive
\* spin, backwards for a negative one, not at all for a zero spin.
C8_RotationFollowsSpin ==
    drawn =>
        /\ \A i \in Bodies : frame[i].spin = frame[0].spin
        /\ Advance = (4 * SpinStep * frame[0].spin) % Turn
        /\ frame[0].spin > 0 => Advance \in 1..(Turn \div 2)
        /\ frame[0].spin < 0 => Advance > Turn \div 2
        /\ frame[0].spin = 0 => currentRadians = radiansBefore

\* A forward spin has wrapped the rotation past 2*pi.
C8_Witness ==
    /\ drawn
    /\ frame[0].spin > 0
    /\ radiansBefore > 0
    /\ currentRadians < radiansBefore

\* C9: when an image fails to load, Init returns an error and the frame loop
\* is never entered; when every image loads and the music file is missing,
\* Init returns no error, no player is made and the frame loop is entered.
C9_InitOutcome ==
    /\ ImageFailed => pc # "loop" /\ scrollX1 = 0 /\ ~jump /\ ~drawn
    /\ (ImageFailed /\ pc # "new") => initErr # "nil" /\ pc = "fatal"
    /\ (~ImageFailed /\ music = "missing" /\ pc # "new")
          => initErr = "nil" /\ audioPlayer = "nil" /\ pc = "loop"

\* No music file, and the intro has been drawn and updated.
C9_Witness ==
    /\ ~ImageFailed
    /\ music = "missing"
    /\ pc = "loop"
    /\ audioPlayer = "nil"
    /\ scrollX1 >= 5

\* C10 (as claimed): the four bodies of a frame are rotated by the same
\* accumulated angle.
C10_SharedAngle == drawn => \A i \in 1..3 : frame[i].angle = frame[0].angle

\* C10 (amended): the rotation is advanced once per body: the angle of body
\* i is that of body i-1 plus one spin step (modulo the wrap), the first
\* follows the rotation left by the previous frame and the last is the one
\* kept; the four angles are equal only for a zero spin.
C10_AngleAdvancesPerBody ==
    drawn =>
        /\ (frame[0].angle - radiansBefore - SpinStep * frame[0].spin) % Turn = 0
        /\ \A i \in 1..3 :
              (frame[i].angle - frame[i - 1].angle - SpinStep * frame[i].spin) % Turn = 0
        /\ frame[3].angle = currentRadians
        /\ (\A i \in 1..3 : frame[i].angle = frame[0].angle) <=> frame[0].spin = 0

\* A frame with a non-zero spin: the four angles differ.
C10_Witness ==
    /\ drawn
    /\ frame[0].spin # 0
    /\ \A i \in 1..3 : frame[i].angle # frame[i - 1].angle

\* The pixels of the cell of the marker of text1.
MarkerCell == Text1Marker * fontWidth .. (Text1Marker + 1) * fontWidth - 1

\* C11: in the frame loop that calls Update once and then Draw once per tick,
\* starting from the Game NewGame returns, the intro ends: jump becomes true
\* and stays true for ever; jump is only ever set by an Update that finds
\* scrollX1 inside the cell of the marker of text1, and it is never set back;
\* vbl, vbl2, speed and xm keep the values NewGame gave them while jump is
\* false and are changed only by an Update that runs with jump true.
C11_IntroEnds ==
    /\ <>[]jump
    /\ [][jump => jump']_vars
    /\ [][(~jump /\ jump') => (turn = "update" /\ scrollX1 \in MarkerCell)]_vars
    /\ [](~jump => floorVars = <<0, 0, 4, 0>>)
    /\ [][floorVars' # floorVars => (jump /\ turn = "update")]_vars

C11_Witness ==
    /\ jump
    /\ scrollX1 \in MarkerCell
    /\ drawn
    /\ vbl > 0
    /\ speed # 4

====
